---- MODULE Spec2Model ----
(***************************************************************************)
(* A model of the "kar" archiver (src/src/archiver.cpp, src/src/main.cpp,  *)
(* src/src/format.hpp, src/include/crc32.hpp): the CRC-32 engine, the      *)
(* byte layout of the container, and the pack / unpack / list commands     *)
(* acting on a small file system.                                          *)
(*                                                                         *)
(* A 32-bit word is the tuple of its four bytes, least significant first,  *)
(* so that every operation keeps the width of uint32_t.  Byte strings are  *)
(* sequences of numbers in 0..255.                                         *)
(***************************************************************************)
EXTENDS Integers, Sequences, FiniteSets, TLC

\* ------------------------------------------------------------------------
\* Bounds of the model
\* ------------------------------------------------------------------------
MaxCrcLen == 3
\* the longest content of a file
MaxLen == 2
\* the most entry records of a hand-made container
MaxCraft == 2
\* the most commands run one after the other
MaxCmds == 2
\* the most of them that may be a pack (the first ones)
MaxPacks == 1
\* the latest second the clock reaches
MaxClock == 2

\* ------------------------------------------------------------------------
\* 32-bit words: a uint32_t is its four bytes, least significant first
\* ------------------------------------------------------------------------
\* a uint32_t given as its high and low 16-bit halves
Word32(hi, lo) == <<lo % 256, lo \div 256, hi % 256, hi \div 256>>

ZeroWord == <<0, 0, 0, 0>>

RECURSIVE XorBits(_, _, _)
\* the exclusive or of the low n bits of a and b
XorBits(a, b, n) ==
  IF n = 0 THEN 0
  ELSE ((a + b) % 2) + 2 * XorBits(a \div 2, b \div 2, n - 1)

\* the exclusive or of two half bytes, tabulated
XorNibble == [a \in 0 .. 15 |-> [b \in 0 .. 15 |-> XorBits(a, b, 4)]]

\* the exclusive or of two bytes
XorByte(a, b) == 16 * XorNibble[a \div 16][b \div 16] + XorNibble[a % 16][b % 16]

\* a ^ b
Xor(a, b) == <<XorByte(a[1], b[1]), XorByte(a[2], b[2]), XorByte(a[3], b[3]),
               XorByte(a[4], b[4])>>
\* a >> 1
Shr1(a) == <<(a[1] \div 2) + 128 * (a[2] % 2), (a[2] \div 2) + 128 * (a[3] % 2),
             (a[3] \div 2) + 128 * (a[4] % 2), a[4] \div 2>>
\* a >> 8
Shr8(a) == <<a[2], a[3], a[4], 0>>
\* a & 1
LowBit(a) == a[1] % 2
\* uint8_t <- uint32_t: (a & 0xFF)
LowByte(a) == a[1]
\* uint32_t <- uint8_t
WordOfByte(byte) == <<byte, 0, 0, 0>>

\* ------------------------------------------------------------------------
\* crc32.hpp
\* ------------------------------------------------------------------------
POLYNOMIAL == Word32(60856, 33568)    \* 0xEDB88320
AllOnes == Word32(65535, 65535)       \* 0xFFFFFFFF

\* one round of the inner loop of init_table
TableRound(crc) == IF LowBit(crc) = 1 THEN Xor(Shr1(crc), POLYNOMIAL) ELSE Shr1(crc)

RECURSIVE TableRounds(_, _)
TableRounds(crc, j) == IF j = 0 THEN crc ELSE TableRounds(TableRound(crc), j - 1)

\* CRC32::init_table: table_[i] for i in 0..255
table_ == [i \in 0 .. 255 |-> TableRounds(WordOfByte(i), 8)]

\* a wrong engine: the accumulator starts at zero
ZeroSeed == ZeroWord

\* the seed of the accumulator in CRC32::calculate
CrcSeed == AllOnes

\* the body of the loop of CRC32::calculate
CrcUpdate(crc, byte) ==
  LET table_index == LowByte(Xor(crc, WordOfByte(byte)))
  IN  Xor(Shr8(crc), table_[table_index])

\* the return statement of CRC32::calculate
CrcFinal(crc) == Xor(crc, AllOnes)

\* the accumulator stays a uint32_t
IsWord(w) == \A k \in 1 .. 4 : w[k] \in 0 .. 255

RECURSIVE CrcLoop(_, _, _)
\* the loop of CRC32::calculate from index i on
CrcLoop(crc, data, i) ==
  IF i > Len(data) THEN crc
  ELSE LET next == CrcUpdate(crc, data[i])
       IN  IF IsWord(next) THEN CrcLoop(next, data, i + 1) ELSE ZeroWord

\* a wrong engine: the loop stops one byte early
CalculateButLast(data) ==
  CrcFinal(CrcLoop(CrcSeed, SubSeq(data, 1, Len(data) - 1), 1))

\* CRC32::calculate(data, len)
calculate(data) == CrcFinal(CrcLoop(CrcSeed, data, 1))

\* ------------------------------------------------------------------------
\* State
\* ------------------------------------------------------------------------
VARIABLES
  disk,           \* the regular files: path -> bytes
  now,            \* the second current_timestamp() returns during the command
  ncmds,          \* commands started so far
  cmd,            \* the command main runs: "none", "pack", "unpack", "list"
  pc,             \* "idle", "loop", "done" (main returned 0), "failed" (returned 1)
  argv,           \* the paths given to the command
  exitCode,       \* what main returned, -1 while it runs
  err,            \* the exception main caught
  files,          \* pack: std::vector<fs::path> files
  i,              \* the loop counter of the command
  total_entries,  \* unpack, list: global_header.entry_count
  outBuf,         \* pack: the bytes written to std::ofstream archive
  stream,         \* unpack, list: std::ifstream archive
  listing,        \* list: the lines printed, as <<path, content_size>>
  disk0,          \* history: the disk when the command started
  parsed,         \* history: the entries unpack has read, in order
  packedTree,     \* history: the source tree when the last pack started, the path
                  \* of its container, and whether that pack has returned 0
  corrupted       \* history: the byte changed in the container, if any

mainVars == <<disk, now, ncmds, cmd, pc, argv, exitCode, err, files, i, total_entries,
              outBuf, stream, listing, disk0, parsed, packedTree, corrupted>>

\* ------------------------------------------------------------------------
\* The checksum engine run step by step on an input
\* ------------------------------------------------------------------------
VARIABLES crcData, crcAcc, crcPos, crcPc

crcVars == <<crcData, crcAcc, crcPos, crcPc>>
vars == <<mainVars, crcVars>>

\* bytes the inputs of the checksum engine are made of
CrcBytes == {0, 1, 97, 255}

RECURSIVE SeqsUpTo(_, _)
\* all sequences over S of length at most n
SeqsUpTo(S, n) ==
  IF n = 0 THEN {<<>>}
  ELSE LET shorter == SeqsUpTo(S, n - 1)
       IN  shorter \cup {Append(s, x) : s \in {t \in shorter : Len(t) = n - 1}, x \in S}

Str_a == <<97>>
Str_abc == <<97, 98, 99>>
Str_hello == <<104, 101, 108, 108, 111>>
Str_world == <<119, 111, 114, 108, 100>>
Str_123456789 == <<49, 50, 51, 52, 53, 54, 55, 56, 57>>

\* the inputs of test_crc32_known_values
TestVectors == {<<>>, Str_a, Str_abc, Str_hello, Str_world, Str_123456789}

CrcInputs == SeqsUpTo(CrcBytes, MaxCrcLen) \cup TestVectors

CrcInit ==
  /\ crcData \in CrcInputs
  /\ crcAcc = CrcSeed
  /\ crcPos = 1
  /\ crcPc = "loop"

CrcStep ==
  /\ crcPc = "loop"
  /\ crcPos <= Len(crcData)
  /\ crcAcc' = CrcUpdate(crcAcc, crcData[crcPos])
  /\ crcPos' = crcPos + 1
  /\ UNCHANGED <<crcData, crcPc>>
  /\ UNCHANGED mainVars

CrcReturn ==
  /\ crcPc = "loop"
  /\ crcPos > Len(crcData)
  /\ crcAcc' = CrcFinal(crcAcc)
  /\ crcPc' = "done"
  /\ UNCHANGED <<crcData, crcPos>>
  /\ UNCHANGED mainVars



\* ------------------------------------------------------------------------
\* format.hpp: the packed structs and their little-endian layout
\* ------------------------------------------------------------------------
\* sizeof(FileHeader): magic u32, version u16, entry_count u32,
\* created_at u64, reserved u32, packed
FileHeaderSize == 22
\* sizeof(EntryHeader): path_length u32, content_size u64, modified_time u64,
\* checksum u32, permissions u16, packed
EntryHeaderSize == 26

KAR_MAGIC == Word32(21057, 16715)     \* 0x5241414B, the bytes "KAAR"

RECURSIVE LE(_, _)
\* the k bytes of an unsigned integer, least significant first
LE(n, k) == IF k = 0 THEN <<>> ELSE <<n % 256>> \o LE(n \div 256, k - 1)

RECURSIVE FromLE(_)
\* the unsigned integer a little-endian byte string stands for
FromLE(b) == IF b = <<>> THEN 0 ELSE b[1] + 256 * FromLE(Tail(b))

\* a uint32_t field in the struct: its bytes, least significant first (the
\* structs are written as they lie in memory, on a little-endian machine)
WordBytes(w) == w
WordOfBytes(b) == <<b[1], b[2], b[3], b[4]>>

\* the bytes archive.write(&global_header, sizeof(global_header)) emits
FileHeaderBytes(h) ==
  WordBytes(h.magic) \o LE(h.version, 2) \o LE(h.entry_count, 4)
    \o LE(h.created_at, 8) \o LE(h.reserved, 4)

\* the bytes archive.write(&entry, sizeof(entry)) emits
EntryHeaderBytes(e) ==
  LE(e.path_length, 4) \o LE(e.content_size, 8) \o LE(e.modified_time, 8)
    \o WordBytes(e.checksum) \o LE(e.permissions, 2)

\* 0644
DefaultPermissions == 420

\* ------------------------------------------------------------------------
\* Paths and the file system (std::filesystem, as far as the code uses it)
\* A path is a sequence of segments, a segment a byte string; the root of
\* the model is the working directory of the process, taken to be "/".
\* ------------------------------------------------------------------------
\* the separator '/'
SlashStr == <<47>>
seg_src == <<115, 114, 99>>
seg_out == <<111, 117, 116>>
seg_nosrc == <<110, 111>>
seg_a == <<97>>
seg_b == <<98>>
seg_d == <<100>>
seg_k == <<107>>
seg_x == <<120>>
Dot == <<46>>
DotDot == <<46, 46>>

SrcDir == <<seg_src>>
DestDir == <<seg_out>>
MissingDir == <<seg_nosrc>>

IsPrefix(p, q) == Len(p) <= Len(q) /\ SubSeq(q, 1, Len(p)) = p
IsProperPrefix(p, q) == Len(p) < Len(q) /\ SubSeq(q, 1, Len(p)) = p

\* the directories that exist whatever the files are
BaseDirs == {<<>>, SrcDir, DestDir}

\* the directories of a disk: the base ones and the ancestors of its files
IsDirectory(d, p) == p \in BaseDirs \/ \E f \in DOMAIN d : IsProperPrefix(p, f)

\* the disk with file p holding content c
Put(d, p, c) == [q \in (DOMAIN d) \cup {p} |-> IF q = p THEN c ELSE d[q]]

RECURSIVE JoinSegs(_)
\* fs::path::string(): the segments joined by '/'
JoinSegs(segs) ==
  IF segs = <<>> THEN <<>>
  ELSE IF Len(segs) = 1 THEN segs[1]
  ELSE segs[1] \o SlashStr \o JoinSegs(Tail(segs))

\* fs::relative(file_path, base_dir).string(), for a file below base_dir
RelativeString(file_path, base_dir) ==
  JoinSegs(SubSeq(file_path, Len(base_dir) + 1, Len(file_path)))

RECURSIVE CStr(_)
\* the path the operating system sees: the bytes before the first NUL
CStr(str) ==
  IF str = <<>> \/ str[1] = 0 THEN <<>> ELSE <<str[1]>> \o CStr(Tail(str))

RECURSIVE SplitSegs(_, _)
\* the segments of a path string; cur is the segment being read
SplitSegs(str, cur) ==
  IF str = <<>> THEN (IF cur = <<>> THEN <<>> ELSE <<cur>>)
  ELSE IF str[1] = SlashStr[1]
       THEN (IF cur = <<>> THEN <<>> ELSE <<cur>>) \o SplitSegs(Tail(str), <<>>)
       ELSE SplitSegs(Tail(str), Append(cur, str[1]))

IsAbsolute(str) == str # <<>> /\ str[1] = SlashStr[1]

\* target_dir / rel_path: an absolute right-hand side replaces the left
JoinPath(target_dir, rel_path) ==
  LET s == CStr(rel_path)
  IN  IF IsAbsolute(s) THEN SplitSegs(s, <<>>) ELSE target_dir \o SplitSegs(s, <<>>)

RECURSIVE Resolve(_, _)
\* the file a path names: "." stays, ".." goes up (the root is its own parent)
Resolve(segs, acc) ==
  IF segs = <<>> THEN acc
  ELSE IF segs[1] = Dot THEN Resolve(Tail(segs), acc)
  ELSE IF segs[1] = DotDot
       THEN Resolve(Tail(segs), IF acc = <<>> THEN <<>> ELSE SubSeq(acc, 1, Len(acc) - 1))
       ELSE Resolve(Tail(segs), Append(acc, segs[1]))

\* ------------------------------------------------------------------------
\* std::ifstream, as far as the code uses it: a stream is the bytes of the
\* file, the read position and whether the stream is still good.  A read
\* that meets the end of the file stores the bytes there are and sets
\* failbit; every later read stores nothing.
\* ------------------------------------------------------------------------
OpenStream(d, p) ==
  IF p \in DOMAIN d THEN [data |-> d[p], pos |-> 0, ok |-> TRUE]
  ELSE [data |-> <<>>, pos |-> 0, ok |-> FALSE]

Min(a, b) == IF a < b THEN a ELSE b
Max(a, b) == IF a > b THEN a ELSE b

\* archive.read(buf, n): the bytes stored and the stream afterwards
StreamRead(s, n) ==
  IF ~s.ok THEN [got |-> <<>>, stream |-> s]
  ELSE LET avail == Max(0, Min(n, Len(s.data) - s.pos))
       IN  [got    |-> SubSeq(s.data, s.pos + 1, s.pos + avail),
            stream |-> [s EXCEPT !.pos = s.pos + avail, !.ok = (avail = n)]]

\* a wrong list: the skip stops one byte before the end of the content
SkipShort(s, n) == IF ~s.ok THEN s ELSE [s EXCEPT !.pos = s.pos + Max(0, n - 1)]

\* archive.seekg(n, std::ios::cur): nothing on a failed stream; the position
\* may pass the end of the file
StreamSkip(s, n) == IF ~s.ok THEN s ELSE [s EXCEPT !.pos = s.pos + n]

\* n zero bytes
Zeros(n) == [k \in 1 .. n |-> 0]

\* a zero-initialised std::string / std::vector<char> of n bytes after the
\* read stored got into its front
Filled(got, n) == got \o Zeros(n - Len(got))

\* Values an uninitialised struct field may hold when the read did not reach
\* it (FileHeader global_header; and EntryHeader entry; are not initialised)
IndetMagic == {KAR_MAGIC, ZeroWord}
IndetCount == {0, 1}
IndetSize == {0, 1}
IndetChecksum == {ZeroWord, calculate(<<0>>)}

\* the field at bytes lo..hi of a struct that a read stored got into
FieldBytes(got, lo, hi) == SubSeq(got, lo, hi)
FieldRead(got, hi) == Len(got) >= hi

\* archive.read(&global_header, sizeof(global_header)): the headers the
\* struct may hold afterwards, each with the stream afterwards
ReadFileHeader(s) ==
  LET r == StreamRead(s, FileHeaderSize)
  IN  {[magic |-> m, entry_count |-> c, stream |-> r.stream] :
         m \in (IF FieldRead(r.got, 4) THEN {WordOfBytes(FieldBytes(r.got, 1, 4))}
                ELSE IndetMagic),
         c \in (IF FieldRead(r.got, 10) THEN {FromLE(FieldBytes(r.got, 7, 10))}
                ELSE IndetCount)}

\* archive.read(&entry, sizeof(entry))
ReadEntryHeader(s) ==
  LET r == StreamRead(s, EntryHeaderSize)
  IN  {[path_length |-> pl, content_size |-> cs, checksum |-> ck, stream |-> r.stream] :
         pl \in (IF FieldRead(r.got, 4) THEN {FromLE(FieldBytes(r.got, 1, 4))}
                 ELSE IndetSize),
         cs \in (IF FieldRead(r.got, 12) THEN {FromLE(FieldBytes(r.got, 5, 12))}
                 ELSE IndetSize),
         ck \in (IF FieldRead(r.got, 24) THEN {WordOfBytes(FieldBytes(r.got, 21, 24))}
                 ELSE IndetChecksum)}

NoErr == [msg |-> "", path |-> <<>>, expected |-> ZeroWord, got |-> ZeroWord]
NoStream == [data |-> <<>>, pos |-> 0, ok |-> FALSE]
NoArgs == [source |-> <<>>, archive |-> <<>>, target |-> <<>>]
NoCorruption == [entry |-> 0, offset |-> 0]
NoTree == [valid |-> FALSE, relative |-> <<>>, archive |-> <<>>]

\* ------------------------------------------------------------------------
\* Inputs
\* ------------------------------------------------------------------------
\* the files a source tree may hold: src/a and src/d/b
TreePaths == {SrcDir \o <<seg_a>>, SrcDir \o <<seg_d, seg_b>>}
ContentBytes == {0, 104}
Contents == SeqsUpTo(ContentBytes, MaxLen)
Trees == UNION {[S -> Contents] : S \in SUBSET TreePaths}

\* where the container may be: ./k, src/k (inside the source tree), no/k
\* (in a directory that does not exist)
ArchiveOutside == <<seg_k>>
ArchiveInside == SrcDir \o <<seg_k>>
ArchiveNowhere == MissingDir \o <<seg_k>>
ArchivePaths == {ArchiveOutside, ArchiveInside, ArchiveNowhere}

\* hand-made containers: a global header and records taken from a pool.
\* The paths are "a", "d/b", "../x", "/x" and ""; the checksum is the right
\* one, the zero the older writer (src/archiver.cpp) stores, or a wrong one.
Content_h == <<104>>
CraftRecords ==
  {[path |-> <<97>>, content |-> Content_h, checksum |-> calculate(Content_h)],
   [path |-> <<97>>, content |-> Content_h, checksum |-> ZeroWord],
   [path |-> <<97>>, content |-> Content_h, checksum |-> Xor(calculate(Content_h), WordOfByte(1))],
   [path |-> <<100, 47, 98>>, content |-> <<>>, checksum |-> calculate(<<>>)],
   [path |-> <<100, 47, 98>>, content |-> <<>>, checksum |-> WordOfByte(1)],
   [path |-> <<46, 46, 47, 120>>, content |-> Content_h, checksum |-> calculate(Content_h)],
   [path |-> <<47, 120>>, content |-> Content_h, checksum |-> calculate(Content_h)],
   [path |-> <<>>, content |-> Content_h, checksum |-> calculate(Content_h)]}
CraftRecordBytes(r) ==
  EntryHeaderBytes([path_length |-> Len(r.path), content_size |-> Len(r.content),
                    modified_time |-> 1, checksum |-> r.checksum,
                    permissions |-> DefaultPermissions])
    \o r.path \o r.content

RECURSIVE Flatten(_)
Flatten(ss) == IF ss = <<>> THEN <<>> ELSE ss[1] \o Flatten(Tail(ss))

BadMagic == Xor(KAR_MAGIC, WordOfByte(1))
\* entry_count is the number of records, or one more; the container is
\* whole, or its last byte is missing
Crafted ==
  {LET whole == FileHeaderBytes([magic |-> m, version |-> 1, entry_count |-> Len(l) + extra,
                                 created_at |-> 1, reserved |-> 0])
                  \o Flatten([k \in 1 .. Len(l) |-> CraftRecordBytes(l[k])])
   IN  SubSeq(whole, 1, Len(whole) - cut) :
   m \in {KAR_MAGIC, BadMagic}, l \in SeqsUpTo(CraftRecords, MaxCraft), extra \in {0, 1},
   cut \in {0, 1}}

\* The disk at the start: a source tree and no container, or an empty source
\* tree and a hand-made container at ./k
Init ==
  /\ \/ disk \in Trees
     \/ disk \in {ArchiveOutside :> c : c \in Crafted}
  /\ now = 1
  /\ ncmds = 0
  /\ cmd = "none"
  /\ pc = "idle"
  /\ argv = NoArgs
  /\ exitCode = -1
  /\ err = NoErr
  /\ files = <<>>
  /\ i = 0
  /\ total_entries = 0
  /\ outBuf = <<>>
  /\ stream = NoStream
  /\ listing = <<>>
  /\ disk0 = disk
  /\ parsed = <<>>
  /\ packedTree = NoTree
  /\ corrupted = NoCorruption
  /\ crcData = <<>>
  /\ crcAcc = CrcSeed
  /\ crcPos = 1
  /\ crcPc = "done"

\* ------------------------------------------------------------------------
\* main (src/src/main.cpp): a command starts when none is running; an
\* exception of the command is caught and main returns 1
\* ------------------------------------------------------------------------
CanStart == pc \in {"idle", "done", "failed"} /\ ncmds < MaxCmds

\* what every command start does to the process state
Begin(c, a) ==
  /\ CanStart
  /\ cmd' = c
  /\ argv' = a
  /\ ncmds' = ncmds + 1
  /\ disk0' = disk
  /\ parsed' = <<>>
  /\ listing' = <<>>
  /\ i' = 0

\* a wrong main: the exception is swallowed and the loop goes on
PcKeepsGoing == "loop"

\* the pc after a throw: main's catch block returns 1
PcAfterThrow == "failed"

\* throw std::runtime_error(msg), caught in main
Throw(e) ==
  /\ pc' = PcAfterThrow
  /\ exitCode' = 1
  /\ err' = e

\* main returns 0
Return0 ==
  /\ pc' = "done"
  /\ exitCode' = 0

\* ------------------------------------------------------------------------
\* Archiver::pack
\* ------------------------------------------------------------------------
ParentOf(p) == SubSeq(p, 1, Len(p) - 1)

\* std::ofstream archive(archive_path) opens: the directory is there and the
\* path is no directory
CanCreate(d, p) == p # <<>> /\ IsDirectory(d, ParentOf(p)) /\ ~IsDirectory(d, p)

\* the regular files fs::recursive_directory_iterator(source_dir) yields
WalkOf(d, source_dir) == {p \in DOMAIN d : IsProperPrefix(source_dir, p)}

\* the orders in which the iterator may yield them (the order is unspecified)
Orders(S) ==
  {f \in [1 .. Cardinality(S) -> S] : \A a, b \in 1 .. Cardinality(S) : f[a] = f[b] => a = b}

\* a wrong pack: the header counts one entry too many
EntryCountPlusOne(fs) == Len(fs) + 1

\* global_header.entry_count
EntryCountOf(fs) == Len(fs)

\* the FileHeader pack writes
PackHeader(fs, t) ==
  [magic |-> KAR_MAGIC, version |-> 1, entry_count |-> EntryCountOf(fs),
   created_at |-> t, reserved |-> 0]

\* the source tree as relative path string -> content
RelativeTree(d, source_dir) ==
  [r \in {RelativeString(p, source_dir) : p \in WalkOf(d, source_dir)} |->
     d[CHOOSE p \in WalkOf(d, source_dir) : RelativeString(p, source_dir) = r]]

\* Archiver::write_entry: the bytes appended for file_path, whose content was
\* read as content at second t
write_entry(base_dir, file_path, content, t) ==
  LET rel_path == RelativeString(file_path, base_dir)
      checksum == calculate(content)
      entry == [path_length |-> Len(rel_path), content_size |-> Len(content),
                modified_time |-> t, checksum |-> checksum,
                permissions |-> DefaultPermissions]
  IN  EntryHeaderBytes(entry) \o rel_path \o content

\* What write_entry reads from file_path: the bytes the file holds on disk.
\* The container itself, when it is among the files, holds on disk only what
\* the ofstream has flushed; the containers of the model are far smaller
\* than the buffer of the stream, so that is nothing before the close.
\* A file that could not be opened yields nothing.
ContentSeen(d, file_path) == IF file_path \in DOMAIN d THEN d[file_path] ELSE <<>>

\* a wrong write_entry: a file that cannot be opened counts as an empty one
AlwaysReadable(d, file_path) == TRUE

\* std::ifstream file(file_path, ...) opens, so that tellg() is the size;
\* on a stream that failed to open tellg() is -1
Readable(d, file_path) == file_path \in DOMAIN d

\* what std::vector<char> buffer(static_cast<size_t>(-1)) throws: the
\* length_error of the constructor or the bad_alloc of the allocator,
\* as the library has it
VectorErrors == {"cannot create std::vector larger than max_size()", "std::bad_alloc"}

\* a wrong pack: the source path is not looked at
SourceUnchecked(d, source_dir) == TRUE

\* fs::exists(source_dir) && fs::is_directory(source_dir)
SourceOk(d, source_dir) == IsDirectory(d, source_dir)

PackStart(source_dir, archive_path) ==
  /\ UNCHANGED crcVars
  /\ ncmds < MaxPacks
  /\ now' \in {now, Min(now + 1, MaxClock)}
  /\ Begin("pack", [source |-> source_dir, archive |-> archive_path, target |-> <<>>])
  /\ stream' = NoStream
  /\ total_entries' = 0
  /\ \/ /\ ~SourceOk(disk, source_dir)
        /\ Throw([NoErr EXCEPT !.msg = "Source directory does not exist"])
        /\ files' = <<>>
        /\ outBuf' = <<>>
        /\ UNCHANGED <<disk, packedTree, corrupted>>
     \/ /\ SourceOk(disk, source_dir)
        /\ ~CanCreate(disk, archive_path)
        /\ Throw([NoErr EXCEPT !.msg = "Cannot create archive file"])
        /\ files' = <<>>
        /\ outBuf' = <<>>
        /\ UNCHANGED <<disk, packedTree, corrupted>>
     \/ /\ SourceOk(disk, source_dir)
        /\ CanCreate(disk, archive_path)
        /\ disk' = Put(disk, archive_path, <<>>)
        /\ \E order \in Orders(WalkOf(disk', source_dir)) :
             /\ files' = order
             /\ outBuf' = FileHeaderBytes(PackHeader(order, now'))
        /\ packedTree' = [valid |-> FALSE, relative |-> RelativeTree(disk, source_dir),
                          archive |-> archive_path]
        /\ corrupted' = NoCorruption
        /\ pc' = "loop"
        /\ exitCode' = -1
        /\ err' = NoErr

PackEntry ==
  /\ UNCHANGED crcVars
  /\ cmd = "pack"
  /\ pc = "loop"
  /\ i < Len(files)
  /\ \/ /\ Readable(disk, files[i + 1])
        /\ outBuf' = outBuf \o write_entry(argv.source, files[i + 1],
                                             ContentSeen(disk, files[i + 1]), now)
        /\ i' = i + 1
        /\ UNCHANGED <<disk, pc, exitCode, err>>
     \/ \* the exception unwinds pack: the ofstream is closed with what was
        \* written so far
        /\ ~Readable(disk, files[i + 1])
        /\ \E m \in VectorErrors : Throw([NoErr EXCEPT !.msg = m])
        /\ disk' = Put(disk, argv.archive, outBuf)
        /\ UNCHANGED <<outBuf, i>>
  /\ UNCHANGED <<now, ncmds, cmd, argv, files, total_entries, stream,
                 listing, disk0, parsed, packedTree, corrupted>>

\* The environment during a pack: a file that was collected and whose entry
\* is not written yet goes away (or loses its read permission)
FileBecomesUnreadable ==
  /\ UNCHANGED crcVars
  /\ cmd = "pack"
  /\ pc = "loop"
  /\ \E k \in (i + 1) .. Len(files) :
       /\ files[k] \in DOMAIN disk
       /\ files[k] # argv.archive
       /\ disk' = [p \in DOMAIN disk \ {files[k]} |-> disk[p]]
  /\ UNCHANGED <<now, ncmds, cmd, pc, argv, exitCode, err, files, i, total_entries, outBuf,
                 stream, listing, disk0, parsed, packedTree, corrupted>>

\* the loop is over: pack returns, the ofstream is closed and main returns 0
PackFinish ==
  /\ UNCHANGED crcVars
  /\ cmd = "pack"
  /\ pc = "loop"
  /\ i = Len(files)
  /\ disk' = Put(disk, argv.archive, outBuf)
  /\ packedTree' = [packedTree EXCEPT !.valid = TRUE]
  /\ Return0
  /\ UNCHANGED <<now, ncmds, cmd, argv, err, files, i, total_entries, outBuf, stream,
                 listing, disk0, parsed, corrupted>>

\* a wrong unpack: any magic number is accepted
AnyMagic(magic) == TRUE

\* a wrong unpack: the comparison of the checksums is left out
AlwaysMatches(calculated_crc, checksum) == TRUE

\* a wrong unpack: a stored checksum of zero means "do not verify"
ZeroSkips(calculated_crc, checksum) == checksum = ZeroWord \/ calculated_crc = checksum

\* ------------------------------------------------------------------------
\* Archiver::unpack
\* ------------------------------------------------------------------------
\* global_header.magic != KAR_MAGIC, negated
MagicOk(magic) == magic = KAR_MAGIC

\* calculated_crc != entry.checksum, negated
ChecksumMatches(calculated_crc, checksum) == calculated_crc = checksum

\* the exception thrown on a checksum mismatch
MismatchError(rel_path, checksum, calculated_crc) ==
  [msg |-> "CRC32 mismatch for file: ", path |-> rel_path, expected |-> checksum,
   got |-> calculated_crc]

\* fs::path out_path = target_dir / rel_path, as the segments given and as
\* the file they name
OutPathRaw(target_dir, rel_path) == JoinPath(target_dir, rel_path)
OutPath(target_dir, rel_path) == Resolve(OutPathRaw(target_dir, rel_path), <<>>)

\* What lines 131-138 do with a verified entry:
\*   "fserror": fs::create_directories(out_path.parent_path()) throws, a
\*              component of the parent path being a regular file;
\*   "skipped": out_path names a directory: the ofstream does not open, the
\*              write does nothing and fs::permissions succeeds on the directory;
\*   "written": the file is created or truncated and the content written.
ExtractOutcome(d, target_dir, rel_path) ==
  LET raw == OutPathRaw(target_dir, rel_path)
  IN  IF \E k \in 1 .. (Len(raw) - 1) : Resolve(SubSeq(raw, 1, k), <<>>) \in DOMAIN d
        THEN "fserror"
      ELSE IF IsDirectory(d, Resolve(raw, <<>>)) THEN "skipped"
      ELSE "written"

UnpackStart(archive_path) ==
  /\ UNCHANGED crcVars
  /\ Begin("unpack", [source |-> <<>>, archive |-> archive_path, target |-> DestDir])
  /\ files' = <<>>
  /\ outBuf' = <<>>
  /\ LET s == OpenStream(disk, archive_path)
     IN  \/ /\ ~s.ok
            /\ Throw([NoErr EXCEPT !.msg = "Cannot open archive file"])
            /\ stream' = s
            /\ total_entries' = 0
         \/ /\ s.ok
            /\ \E h \in ReadFileHeader(s) :
                 /\ ~MagicOk(h.magic)
                 /\ stream' = h.stream
            /\ Throw([NoErr EXCEPT !.msg = "Invalid archive format (wrong magic number)"])
            /\ total_entries' = 0
         \/ /\ s.ok
            /\ \E h \in ReadFileHeader(s) :
                 /\ MagicOk(h.magic)
                 /\ stream' = h.stream
                 /\ total_entries' = h.entry_count
            /\ pc' = "loop"
            /\ exitCode' = -1
            /\ err' = NoErr
  /\ UNCHANGED <<disk, now, packedTree, corrupted>>

\* one turn of the loop of unpack (lines 92-139)
UnpackEntry ==
  /\ UNCHANGED crcVars
  /\ cmd = "unpack"
  /\ pc = "loop"
  /\ i < total_entries
  /\ \E entry \in ReadEntryHeader(stream) :
       LET r1 == StreamRead(entry.stream, entry.path_length)
           rel_path == Filled(r1.got, entry.path_length)
           r2 == StreamRead(r1.stream, entry.content_size)
           buffer == Filled(r2.got, entry.content_size)
           calculated_crc == calculate(buffer)
           outcome == IF ~ChecksumMatches(calculated_crc, entry.checksum) THEN "mismatch"
                      ELSE ExtractOutcome(disk, argv.target, rel_path)
           out_path == OutPath(argv.target, rel_path)
       IN  /\ stream' = r2.stream
           /\ parsed' = Append(parsed, [rel_path |-> rel_path, content |-> buffer,
                                        checksum |-> entry.checksum,
                                        calculated_crc |-> calculated_crc,
                                        outcome |-> outcome, out_path |-> out_path])
           /\ IF outcome = "mismatch"
                THEN /\ Throw(MismatchError(rel_path, entry.checksum, calculated_crc))
                     /\ UNCHANGED <<disk, i>>
              ELSE IF outcome = "fserror"
                THEN /\ Throw([NoErr EXCEPT !.msg = "filesystem error: cannot create directories",
                                            !.path = rel_path])
                     /\ UNCHANGED <<disk, i>>
              ELSE /\ disk' = IF outcome = "written" THEN Put(disk, out_path, buffer) ELSE disk
                   /\ i' = i + 1
                   /\ UNCHANGED <<pc, exitCode, err>>
  /\ UNCHANGED <<now, ncmds, cmd, argv, files, total_entries, outBuf, listing, disk0,
                 packedTree, corrupted>>

UnpackFinish ==
  /\ UNCHANGED crcVars
  /\ cmd = "unpack"
  /\ pc = "loop"
  /\ i = total_entries
  /\ Return0
  /\ UNCHANGED <<disk, now, ncmds, cmd, argv, err, files, i, total_entries, outBuf, stream,
                 listing, disk0, parsed, packedTree, corrupted>>

\* ------------------------------------------------------------------------
\* Archiver::list
\* ------------------------------------------------------------------------
RECURSIVE ScaleSize(_, _)
\* the loop of format_size on the size in hundredths: the hundredths left
\* and the index of the unit
ScaleSize(hundredths, unit_idx) ==
  IF hundredths >= 102400 /\ unit_idx < 3
    THEN ScaleSize((hundredths + 512) \div 1024, unit_idx + 1)
  ELSE <<hundredths, unit_idx>>

\* format_size(bytes): "%.2f %s" as <<hundredths, unit>>
format_size(bytes) ==
  LET r == ScaleSize(bytes * 100, 0)
  IN  <<r[1], <<"B", "KB", "MB", "GB">>[r[2] + 1]>>

\* list opens the file and reads the header; it tests neither
ListStart(archive_path) ==
  /\ UNCHANGED crcVars
  /\ Begin("list", [source |-> <<>>, archive |-> archive_path, target |-> <<>>])
  /\ files' = <<>>
  /\ outBuf' = <<>>
  /\ \E h \in ReadFileHeader(OpenStream(disk, archive_path)) :
       /\ stream' = h.stream
       /\ total_entries' = h.entry_count
  /\ pc' = "loop"
  /\ exitCode' = -1
  /\ err' = NoErr
  /\ UNCHANGED <<disk, now, packedTree, corrupted>>

\* one turn of the loop of list (lines 153-164)
ListEntry ==
  /\ UNCHANGED crcVars
  /\ cmd = "list"
  /\ pc = "loop"
  /\ i < total_entries
  /\ \E entry \in ReadEntryHeader(stream) :
       LET r1 == StreamRead(entry.stream, entry.path_length)
           rel_path == Filled(r1.got, entry.path_length)
       IN  /\ stream' = StreamSkip(r1.stream, entry.content_size)
           /\ listing' = Append(listing, <<rel_path, format_size(entry.content_size)>>)
  /\ i' = i + 1
  /\ UNCHANGED <<disk, now, ncmds, cmd, pc, argv, exitCode, err, files, total_entries,
                 outBuf, disk0, parsed, packedTree, corrupted>>

ListFinish ==
  /\ UNCHANGED crcVars
  /\ cmd = "list"
  /\ pc = "loop"
  /\ i = total_entries
  /\ Return0
  /\ UNCHANGED <<disk, now, ncmds, cmd, argv, err, files, i, total_entries, outBuf, stream,
                 listing, disk0, parsed, packedTree, corrupted>>

\* ------------------------------------------------------------------------
\* The layout of a container (format.hpp): the records that follow the
\* global header, each with the offsets of its parts
\* ------------------------------------------------------------------------
HeaderEntryCount(data) == FromLE(SubSeq(data, 7, 10))
HeaderMagic(data) == WordOfBytes(SubSeq(data, 1, 4))

RECURSIVE RecordsFrom(_, _, _)
RecordsFrom(data, pos, n) ==
  IF n = 0 \/ pos + EntryHeaderSize > Len(data) THEN <<>>
  ELSE LET pl == FromLE(SubSeq(data, pos + 1, pos + 4))
           cs == FromLE(SubSeq(data, pos + 5, pos + 12))
           path_at == pos + EntryHeaderSize
           content_at == path_at + pl
           rec == [offset |-> pos, path_length |-> pl, content_size |-> cs,
                   checksum |-> WordOfBytes(SubSeq(data, pos + 21, pos + 24)),
                   path |-> SubSeq(data, path_at + 1, Min(path_at + pl, Len(data))),
                   content_at |-> content_at,
                   content |-> SubSeq(data, content_at + 1, Min(content_at + cs, Len(data))),
                   next |-> content_at + cs]
       IN  <<rec>> \o RecordsFrom(data, rec.next, n - 1)

RecordsOf(data) ==
  IF Len(data) < FileHeaderSize THEN <<>>
  ELSE RecordsFrom(data, FileHeaderSize, HeaderEntryCount(data))

\* ------------------------------------------------------------------------
\* The environment: one byte of the content of one entry of a container that
\* pack has just written is changed (corrupt_archive_at of the tests)
\* ------------------------------------------------------------------------
CorruptBytes == {0, 120}

CorruptContent ==
  /\ UNCHANGED crcVars
  /\ cmd = "pack"
  /\ pc = "done"
  /\ corrupted = NoCorruption
  /\ LET data == disk[argv.archive]
         recs == RecordsOf(data)
     IN  \E k \in 1 .. Len(recs) :
           \E off \in (recs[k].content_at + 1) .. recs[k].next :
             \E new_byte \in CorruptBytes \ {data[off]} :
               /\ disk' = Put(disk, argv.archive, [data EXCEPT ![off] = new_byte])
               /\ corrupted' = [entry |-> k, offset |-> off]
  /\ UNCHANGED <<now, ncmds, cmd, pc, argv, exitCode, err, files, i, total_entries, outBuf,
                 stream, listing, disk0, parsed, packedTree>>

\* ------------------------------------------------------------------------
\* Specifications
\* ------------------------------------------------------------------------
\* a source path that names a regular file, or nothing
FileSource == SrcDir \o <<seg_a>>

\* the source paths pack is given
Sources == {SrcDir, MissingDir, FileSource}

Next ==
  \/ \E source_dir \in Sources, archive_path \in ArchivePaths :
       PackStart(source_dir, archive_path)
  \/ PackEntry
  \/ FileBecomesUnreadable
  \/ PackFinish
  \/ \E archive_path \in {ArchiveOutside, ArchiveInside} : UnpackStart(archive_path)
  \/ UnpackEntry
  \/ UnpackFinish
  \/ \E archive_path \in {ArchiveOutside, ArchiveInside} : ListStart(archive_path)
  \/ ListEntry
  \/ ListFinish
  \/ CorruptContent

Spec == Init /\ [][Next]_vars

\* the main state while the checksum engine is run on its own
MainIdle ==
  /\ disk = <<>>
  /\ now = 1
  /\ ncmds = 0
  /\ cmd = "none"
  /\ pc = "idle"
  /\ argv = NoArgs
  /\ exitCode = -1
  /\ err = NoErr
  /\ files = <<>>
  /\ i = 0
  /\ total_entries = 0
  /\ outBuf = <<>>
  /\ stream = NoStream
  /\ listing = <<>>
  /\ disk0 = <<>>
  /\ parsed = <<>>
  /\ packedTree = NoTree
  /\ corrupted = NoCorruption

InitCrc == CrcInit /\ MainIdle
NextCrc == CrcStep \/ CrcReturn
SpecCrc == InitCrc /\ [][NextCrc]_vars

\* ------------------------------------------------------------------------
\* Properties
\* ------------------------------------------------------------------------
\* the files below the destination directory, as relative path -> content
DestTree(d) == RelativeTree(d, DestDir)

\* the command reads the container the last pack wrote
ReadsPacked == packedTree.valid /\ argv.archive = packedTree.archive

\* C1: round trip.  When unpack has returned 0 on the untouched container
\* that pack wrote for a source tree, and the destination was empty, the
\* files below the destination are those of the source tree as it was when
\* pack started: the same relative paths, each with the same bytes.
C1_RoundTrip ==
  (cmd = "unpack" /\ pc = "done" /\ ReadsPacked /\ corrupted = NoCorruption
     /\ WalkOf(disk0, DestDir) = {})
    => DestTree(disk) = packedTree.relative

\* The round trip with the container kept outside the source tree: it holds;
\* the round trip fails only where the container lies inside the packed tree.
RoundTripOutsideSource ==
  (cmd = "unpack" /\ pc = "done" /\ ReadsPacked /\ corrupted = NoCorruption
     /\ WalkOf(disk0, DestDir) = {} /\ ~IsPrefix(SrcDir, packedTree.archive))
    => DestTree(disk) = packedTree.relative

MismatchMsg == "CRC32 mismatch for file: "
BadMagicMsg == "Invalid archive format (wrong magic number)"

\* the record of the container under the cursor whose content byte was changed
CorruptedRecord == RecordsOf(stream.data)[corrupted.entry]

\* file p is the same in d as it was in e (same bytes, or absent in both)
SameFile(d, e, p) ==
  /\ (p \in DOMAIN d) <=> (p \in DOMAIN e)
  /\ p \in DOMAIN d => d[p] = e[p]

\* C2: corruption detection.  When one byte inside the content region of an
\* entry of a container written by pack has been changed, unpack of that
\* container never gets past that entry: it fails with the checksum mismatch
\* error that names the entry's path, it exits 1, and the file of that entry
\* is not written.
C2_CorruptionDetected ==
  (cmd = "unpack" /\ ReadsPacked /\ corrupted # NoCorruption)
    => /\ pc # "done"
       /\ i < corrupted.entry
       /\ SameFile(disk, disk0, OutPath(DestDir, CorruptedRecord.path))
       /\ pc = "failed"
            => /\ exitCode = 1
               /\ err.msg = MismatchMsg
               /\ err.path = CorruptedRecord.path
               /\ Len(parsed) = corrupted.entry

\* unpack has stopped at the entry whose content byte was changed
C2_Witness ==
  /\ cmd = "unpack" /\ ReadsPacked /\ corrupted # NoCorruption
  /\ pc = "failed"
  /\ err.msg = MismatchMsg
  /\ corrupted.entry = 2
  /\ Len(parsed) = 2

\* the entry handled by the step that has just been taken
LastParsed == parsed[Len(parsed)]

\* C3: verify before write.  A step of unpack changes the disk only by
\* writing the content of the entry it has just read, and only when the
\* CRC-32 of that content equals the stored checksum; when the two differ
\* the step writes nothing and fails with an error that carries the entry's
\* path, the stored checksum and the computed one.
C3_VerifyBeforeWrite ==
  [][ (cmd = "unpack" /\ ncmds' = ncmds)
        => /\ disk' # disk
             => /\ Len(parsed') = Len(parsed) + 1
                /\ calculate(LastParsed'.content) = LastParsed'.checksum
                /\ disk' = Put(disk, LastParsed'.out_path, LastParsed'.content)
           /\ (Len(parsed') = Len(parsed) + 1
                 /\ calculate(LastParsed'.content) # LastParsed'.checksum)
             => /\ disk' = disk
                /\ pc' = "failed"
                /\ exitCode' = 1
                /\ err' = [msg |-> MismatchMsg,
                           path |-> LastParsed'.rel_path,
                           expected |-> LastParsed'.checksum,
                           got |-> calculate(LastParsed'.content)] ]_vars

\* unpack has refused an entry whose stored checksum differs from the
\* CRC-32 of its content, after writing a verified one
C3_Witness ==
  /\ cmd = "unpack" /\ pc = "failed"
  /\ Len(parsed) = 2
  /\ parsed[1].outcome = "written"
  /\ disk[parsed[1].out_path] = parsed[1].content
  /\ calculate(parsed[2].content) # parsed[2].checksum
  /\ err.expected = parsed[2].checksum
  /\ err.got = calculate(parsed[2].content)

\* a stored path that leaves the destination: absolute, or with a ".." segment
IsTraversal(rel_path) ==
  LET segs == SplitSegs(rel_path, <<>>)
  IN  IsAbsolute(rel_path) \/ \E k \in 1 .. Len(segs) : segs[k] = DotDot

\* C4: path traversal.  unpack writes nothing outside the destination
\* directory, and it never accepts an entry whose stored path is absolute or
\* has a ".." segment.
C4_NoTraversal ==
  cmd = "unpack"
    => /\ \A p \in DOMAIN disk : ~SameFile(disk, disk0, p) => IsProperPrefix(DestDir, p)
       /\ \A k \in 1 .. Len(parsed) :
            IsTraversal(parsed[k].rel_path) => parsed[k].outcome # "written"

\* the container under the cursor has its four magic bytes and they are wrong
HasBadMagic ==
  /\ Len(stream.data) >= 4
  /\ SubSeq(stream.data, 1, 4) # WordBytes(KAR_MAGIC)

\* C5: unpack and the magic number.  When the file opened by unpack does not
\* start with the magic number, unpack fails with the invalid-format error
\* and exits 1, having read nothing past the file header and written nothing.
C5_UnpackRejectsBadMagic ==
  (cmd = "unpack" /\ HasBadMagic)
    => /\ pc = "failed"
       /\ exitCode = 1
       /\ err.msg = BadMagicMsg
       /\ stream.pos <= FileHeaderSize
       /\ parsed = <<>>
       /\ disk = disk0

\* unpack has refused a container with entries behind a wrong magic number
C5_Witness ==
  /\ cmd = "unpack" /\ HasBadMagic
  /\ pc = "failed"
  /\ err.msg = BadMagicMsg
  /\ HeaderEntryCount(stream.data) > 0
  /\ Len(stream.data) > FileHeaderSize

\* C6: list and the magic number.  When the file opened by list does not
\* start with the magic number, list fails with the invalid-format error,
\* exits 1, and reads and shows no entry.
C6_ListRejectsBadMagic ==
  (cmd = "list" /\ HasBadMagic)
    => /\ pc = "failed"
       /\ exitCode = 1
       /\ err.msg = BadMagicMsg
       /\ stream.pos <= FileHeaderSize
       /\ listing = <<>>

\* an entry before the k-th was written to file p
WrittenBefore(k, p) ==
  \E j \in 1 .. (k - 1) : parsed[j].outcome = "written" /\ parsed[j].out_path = p

GenExponents == {32, 26, 23, 22, 16, 12, 11, 10, 8, 7, 5, 4, 2, 1, 0}

\* the generator as 33 coefficients, the highest first
GenBits == [k \in 1 .. 33 |-> IF (33 - k) \in GenExponents THEN 1 ELSE 0]

Pow2(n) == IF n = 0 THEN 1 ELSE 2 ^ n

\* the bits of a byte, the lowest first
BitsOfByte(b) == [k \in 1 .. 8 |-> (b \div Pow2(k - 1)) % 2]

RECURSIVE MsgBits(_)
MsgBits(data) == IF data = <<>> THEN <<>> ELSE BitsOfByte(data[1]) \o MsgBits(Tail(data))

\* the message followed by 32 zero bits, its first 32 bits complemented
Dividend(data) ==
  LET padded == MsgBits(data) \o [k \in 1 .. 32 |-> 0]
  IN  [k \in 1 .. Len(padded) |-> IF k <= 32 THEN 1 - padded[k] ELSE padded[k]]

RECURSIVE Divide(_, _, _)
\* long division over GF(2) of bits by the generator, from position pos to n
Divide(bits, pos, n) ==
  IF pos > n THEN bits
  ELSE LET next == IF bits[pos] = 0 THEN bits
                   ELSE [k \in 1 .. Len(bits) |->
                           IF k >= pos /\ k <= pos + 32
                             THEN (bits[k] + GenBits[k - pos + 1]) % 2
                             ELSE bits[k]]
       IN  IF \A k \in 1 .. Len(next) : next[k] \in {0, 1}
             THEN Divide(next, pos + 1, n)
             ELSE next

RECURSIVE BitsValue(_, _, _)
\* the number whose bits, the lowest first, are r[from .. from + n - 1] complemented
BitsValue(r, from, n) ==
  IF n = 0 THEN 0 ELSE (1 - r[from]) + 2 * BitsValue(r, from + 1, n - 1)

RefCrc32(data) ==
  LET n == 8 * Len(data)
      rem == SubSeq(Divide(Dividend(data), 1, n), n + 1, n + 32)
  IN  <<BitsValue(rem, 1, 8), BitsValue(rem, 9, 8), BitsValue(rem, 17, 8),
        BitsValue(rem, 25, 8)>>

\* C8: the checksum is the standard CRC-32.  The value CRC32::calculate
\* returns for an input is the IEEE 802.3 CRC-32 of that input; for "", "a",
\* "abc" and "123456789" it is 0x00000000, 0xE8B7BE43, 0x352441C2 and
\* 0xCBF43926.
C8_StandardCrc32 ==
  crcPc = "done"
    => /\ crcAcc = RefCrc32(crcData)
       /\ crcData = <<>> => crcAcc = Word32(0, 0)
       /\ crcData = Str_a => crcAcc = Word32(59575, 48707)
       /\ crcData = Str_abc => crcAcc = Word32(13604, 16834)
       /\ crcData = Str_123456789 => crcAcc = Word32(52212, 14630)

\* the engine has returned the check value of "123456789"
C8_Witness ==
  /\ crcPc = "done"
  /\ crcData = Str_123456789
  /\ crcPos = 10
  /\ crcAcc = Word32(52212, 14630)

\* the entry at position k of the log made unpack fail
FailedAt(k) == parsed[k].outcome \in {"mismatch", "fserror"}

\* the number of entries that were handled without a failure
Handled == IF parsed # <<>> /\ FailedAt(Len(parsed)) THEN Len(parsed) - 1 ELSE Len(parsed)

\* the positions among the first m entries that wrote file p
WritersOf(p, m) == {k \in 1 .. m : parsed[k].outcome = "written" /\ parsed[k].out_path = p}

\* the disk is the disk at the start of unpack with the files of the first
\* m entries written over it, in order
DiskIsOverlay(m) ==
  \A p \in DOMAIN disk \cup DOMAIN disk0 \cup {parsed[k].out_path : k \in 1 .. Len(parsed)} :
    LET ks == WritersOf(p, m)
    IN  IF ks = {} THEN SameFile(disk, disk0, p)
        ELSE /\ p \in DOMAIN disk
             /\ disk[p] = parsed[CHOOSE k \in ks : \A j \in ks : j <= k].content

RECURSIVE RecordsLength(_)
\* the sum over the records of 26 + path_length + content_size
RecordsLength(recs) ==
  IF recs = <<>> THEN 0
  ELSE EntryHeaderSize + recs[1].path_length + recs[1].content_size
       + RecordsLength(Tail(recs))

\* C10: the container pack leaves.  After a pack of n files has returned 0,
\* the header's entry_count is n, the file holds n entry records laid end to
\* end right after the 22-byte header with the relative paths of the files
\* in the order they were walked, and its length is
\* 22 + the sum over the entries of (26 + path_length + content_size).
C10_PackLayout ==
  (cmd = "pack" /\ pc = "done")
    => LET data == disk[argv.archive]
           n == Len(files)
           recs == RecordsOf(data)
       IN  /\ HeaderMagic(data) = KAR_MAGIC
           /\ HeaderEntryCount(data) = n
           /\ Len(recs) = n
           /\ \A k \in 1 .. n :
                /\ recs[k].offset = IF k = 1 THEN FileHeaderSize ELSE recs[k - 1].next
                /\ recs[k].path = RelativeString(files[k], argv.source)
                /\ recs[k].path_length = Len(recs[k].path)
                /\ recs[k].content_size = Len(recs[k].content)
           /\ Len(data) = FileHeaderSize + RecordsLength(recs)

\* pack has written a container with two entries, one of them with content
C10_Witness ==
  /\ cmd = "pack" /\ pc = "done" /\ exitCode = 0
  /\ Len(files) = 2
  /\ Len(disk[argv.archive]) > FileHeaderSize + 2 * EntryHeaderSize + 2

\* the offset at which the record after the first k ones starts
BoundaryAfter(recs, k) == IF k = 0 THEN FileHeaderSize ELSE recs[k].next

\* C11: list follows the record boundaries.  On a container written by
\* pack, list shows the path and the content size of the entries in
\* container order and of nothing else; after each entry its cursor is at
\* the start of the next record (header and path read, content_size bytes
\* skipped), which is where the cursor of unpack is after the same number
\* of entries; it ends with success after the last record.
C11_ListFollowsRecords ==
  LET recs == RecordsOf(stream.data)
  IN  /\ (cmd = "list" /\ ReadsPacked)
           => /\ total_entries = Len(recs)
              /\ Len(listing) = i
              /\ i <= Len(recs)
              /\ \A k \in 1 .. i :
                   listing[k] = <<recs[k].path, format_size(recs[k].content_size)>>
              /\ stream.ok
              /\ stream.pos = BoundaryAfter(recs, i)
              /\ pc # "failed"
              /\ pc = "done" => (i = Len(recs) /\ exitCode = 0)
      /\ (cmd = "unpack" /\ ReadsPacked)
           => /\ Len(parsed) <= Len(recs)
              /\ stream.pos = BoundaryAfter(recs, Len(parsed))

\* list has shown both entries of a container whose first entry has content
C11_Witness ==
  /\ cmd = "list" /\ ReadsPacked /\ pc = "done"
  /\ Len(listing) = 2
  /\ RecordsOf(stream.data)[1].content_size > 0
  /\ listing[2][1] = RecordsOf(stream.data)[2].path

NoSourceMsg == "Source directory does not exist"

\* C12: pack without a source directory.  When the source path names
\* nothing or a regular file, pack fails with the "source directory does
\* not exist" error and exit code 1 before it produces anything: no byte is
\* written and the disk is as before, so no file appears at the archive
\* path and a file that was there keeps its bytes.
C12_PackNeedsSourceDir ==
  (cmd = "pack" /\ argv.source \in {MissingDir, FileSource})
    => /\ pc = "failed"
       /\ exitCode = 1
       /\ err.msg = NoSourceMsg
       /\ outBuf = <<>>
       /\ disk = disk0

\* pack of a missing source has failed and the container that was at the
\* archive path is still there
C12_Witness ==
  /\ cmd = "pack" /\ pc = "failed" /\ err.msg = NoSourceMsg
  /\ argv.source = MissingDir
  /\ argv.archive \in DOMAIN disk
  /\ Len(disk[argv.archive]) >= FileHeaderSize

\* pack of a source path that names a regular file has failed
C12_WitnessFile ==
  /\ cmd = "pack" /\ pc = "failed" /\ err.msg = NoSourceMsg
  /\ argv.source = FileSource
  /\ FileSource \in DOMAIN disk
  /\ argv.archive \notin DOMAIN disk

CannotOpenMsg == "Cannot open archive file"

\* the command was given the path of a file that is not there
ArchiveAbsent == argv.archive \notin DOMAIN disk0

\* C13: an absent archive.  unpack and list of an archive file that is not
\* there fail with the "cannot open" error and exit code 1, and handle no
\* entry.
C13_AbsentArchiveFails ==
  (cmd \in {"unpack", "list"} /\ ArchiveAbsent)
    => /\ pc = "failed"
       /\ exitCode = 1
       /\ err.msg = CannotOpenMsg
       /\ i = 0
       /\ parsed = <<>>
       /\ listing = <<>>

\* The part of it that is about unpack alone: it holds.
UnpackAbsentArchiveFails ==
  (cmd = "unpack" /\ ArchiveAbsent)
    => /\ pc = "failed"
       /\ exitCode = 1
       /\ err.msg = CannotOpenMsg
       /\ i = 0
       /\ parsed = <<>>

\* pack is about to write the entry of a file it cannot read
NextFileUnreadable ==
  /\ cmd = "pack" /\ pc = "loop"
  /\ i < Len(files)
  /\ files[i + 1] \notin DOMAIN disk

\* the step is one of pack (the rest are the environment's)
PackStepTaken == outBuf' # outBuf \/ pc' # pc \/ i' # i

\* C15: an unreadable file aborts pack.  When the file whose entry is to be
\* written cannot be read, the step of pack fails with exit code 1 and
\* writes no record: the container left on disk holds the records of the
\* files before it and nothing of it or of a later file, under a header
\* that announces more.  A failed pack takes no further step, so it never
\* reports success.
C15_UnreadableFileAborts ==
  [][ /\ (NextFileUnreadable /\ PackStepTaken)
        => /\ pc' = "failed"
           /\ exitCode' = 1
           /\ err'.msg \in VectorErrors
           /\ i' = i
           /\ outBuf' = outBuf
           /\ LET data == disk'[argv.archive]
              IN  /\ data = outBuf
                  /\ Len(RecordsOf(data)) = i
                  /\ HeaderEntryCount(data) = Len(files)
                  /\ \A k \in 1 .. i :
                       RecordsOf(data)[k].path = RelativeString(files[k], argv.source)
      /\ (cmd = "pack" /\ pc = "failed" /\ ncmds' = ncmds)
        => UNCHANGED <<pc, exitCode, outBuf, disk, i>> ]_vars

\* pack has failed at the second of two files, which was gone; the record of
\* the first one is in the container
C15_Witness ==
  /\ cmd = "pack" /\ pc = "failed" /\ exitCode = 1
  /\ err.msg \in VectorErrors
  /\ Len(files) = 2
  /\ i = 1
  /\ files[2] \notin DOMAIN disk
  /\ Len(RecordsOf(disk[argv.archive])) = 1
  /\ HeaderEntryCount(disk[argv.archive]) = 2

\* the records of a container that are wholly inside it
WholeRecords(data) ==
  Cardinality({k \in 1 .. Len(RecordsOf(data)) : RecordsOf(data)[k].next <= Len(data)})

\* the container ends before the bytes its headers announce
Truncated(data) ==
  \/ Len(data) < FileHeaderSize
  \/ WholeRecords(data) < HeaderEntryCount(data)

\* C14: truncated containers.  When the file that unpack or list has opened
\* ends before all the bytes announced by its global header and its entry
\* headers, the command does not end with success, and unpack writes no file
\* for an entry that is not wholly in the container.
C14_TruncationFails ==
  (cmd \in {"unpack", "list"} /\ ~ArchiveAbsent /\ Truncated(stream.data))
    => /\ pc # "done"
       /\ \A k \in 1 .. Len(parsed) :
            k > WholeRecords(stream.data) => parsed[k].outcome # "written"

\* The part of it that is about unpack of a container with the right magic
\* number: it fails too.
UnpackTruncationFails ==
  (cmd = "unpack" /\ ~ArchiveAbsent /\ Truncated(stream.data) /\ ~HasBadMagic)
    => /\ pc # "done"
       /\ \A k \in 1 .. Len(parsed) :
            k > WholeRecords(stream.data) => parsed[k].outcome # "written"

\* a container with a whole global header, the right magic and no entry
EmptyContainer(data) ==
  /\ Len(data) >= FileHeaderSize
  /\ HeaderMagic(data) = KAR_MAGIC
  /\ HeaderEntryCount(data) = 0

\* unpack and list of a container with entry_count = 0 do not fail, handle
\* no entry and change nothing, and end with exit code 0
EmptyContainerReads ==
  (cmd \in {"unpack", "list"} /\ ~ArchiveAbsent /\ EmptyContainer(stream.data))
    => /\ pc \in {"loop", "done"}
       /\ pc = "done" => exitCode = 0
       /\ total_entries = 0
       /\ i = 0
       /\ parsed = <<>>
       /\ listing = <<>>
       /\ disk = disk0

\* C16: the container without entries.  unpack and list of a container
\* whose header has entry_count = 0 end with success, handle no entry and
\* write no file; and pack of a source tree that holds no regular file
\* leaves such a container, the 22 bytes of the header.
C16_EmptyContainer ==
  /\ EmptyContainerReads
  /\ (cmd = "pack" /\ pc = "done" /\ WalkOf(disk0, argv.source) = {})
       => /\ EmptyContainer(disk[argv.archive])
          /\ Len(disk[argv.archive]) = FileHeaderSize

\* The same with the container kept outside the source tree: it holds.
EmptyContainerOutsideSource ==
  /\ EmptyContainerReads
  /\ (cmd = "pack" /\ pc = "done" /\ WalkOf(disk0, argv.source) = {}
        /\ ~IsPrefix(argv.source, argv.archive))
       => /\ EmptyContainer(disk[argv.archive])
          /\ Len(disk[argv.archive]) = FileHeaderSize

\* unpack of the container that pack wrote for an empty tree has ended
EmptyContainerReached ==
  /\ cmd = "unpack" /\ pc = "done" /\ ReadsPacked
  /\ EmptyContainer(stream.data)

\* the files whose entries pack writes
FilesPacked == {files[k] : k \in 1 .. Len(files)}

\* C17: pack does not archive its own output.  Wherever the archive path
\* is, the files whose entries pack writes are the regular files that were
\* below the source directory when pack started.
C17_OutputNotArchived ==
  (cmd = "pack" /\ pc \in {"loop", "done"})
    => FilesPacked = WalkOf(disk0, argv.source)

\* The same with the container kept outside the source tree: it holds.
OutputNotArchivedOutsideSource ==
  (cmd = "pack" /\ pc \in {"loop", "done"} /\ ~IsPrefix(argv.source, argv.archive))
    => FilesPacked = WalkOf(disk0, argv.source)

====
